---- MODULE Spec2Model ----
(***************************************************************************)
(* Model of sc-court-scraper (src/app.py): the /api/scan handler           *)
(* scan_courts fans one normalized name query out to the configured county *)
(* sites on a thread pool, each worker running scrape_county (POST with    *)
(* urllib3 retries, then HTML table extraction), and folds the per-county  *)
(* outcomes into one JSON response.                                        *)
(*                                                                         *)
(* Text is modelled as sequences of one-character strings, so that         *)
(* trimming, whitespace collapsing and case-insensitive search are         *)
(* computed rather than assumed.                                           *)
(***************************************************************************)
EXTENDS Integers, Sequences, FiniteSets, TLC

----------------------------------------------------------------------------
(* Configuration (src/app.py:33-65)                                        *)

\* The keys of COUNTY_URLS, in insertion order.
CountyOrder == <<"Clarendon", "Lee", "Sumter", "Williamsburg">>

Counties == {CountyOrder[i] : i \in DOMAIN CountyOrder}

\* All four endpoints live on one origin and differ in the first path segment.
Origin == "https://www.clerkoftrialcourt.com"

COUNTY_URLS == [c \in Counties |-> [origin |-> Origin, path |-> <<c, "search_results.php">>]]

\* Retry(total=3, ...): the number of retries allowed after the first attempt.
RetryTotal == 3

\* Retry(status_forcelist=[500, 502, 503, 504]).
status_forcelist == {500, 502, 503, 504}

----------------------------------------------------------------------------
(* Python string operations on character sequences                         *)

IsSpace(ch) == ch = " "

RECURSIVE lstrip(_)
lstrip(s) == IF s # <<>> /\ IsSpace(Head(s)) THEN lstrip(Tail(s)) ELSE s

RECURSIVE rstrip(_)
rstrip(s) ==
    IF s # <<>> /\ IsSpace(s[Len(s)]) THEN rstrip(SubSeq(s, 1, Len(s) - 1)) ELSE s

\* str.strip()
strip(s) == rstrip(lstrip(s))

\* The first whitespace-delimited word of s (s starts with a non-space).
RECURSIVE FirstWord(_)
FirstWord(s) ==
    IF s = <<>> \/ IsSpace(Head(s)) THEN <<>> ELSE <<Head(s)>> \o FirstWord(Tail(s))

\* str.split() with no separator: the maximal runs of non-whitespace.
RECURSIVE split(_)
split(s) ==
    LET t == lstrip(s)
        w == FirstWord(t)
    IN  IF t = <<>> THEN <<>> ELSE <<w>> \o split(SubSeq(t, Len(w) + 1, Len(t)))

\* " ".join(words)
RECURSIVE join(_)
join(words) ==
    IF words = <<>> THEN <<>>
    ELSE IF Len(words) = 1 THEN words[1]
    ELSE words[1] \o <<" ">> \o join(Tail(words))

\* normalized_name = " ".join(search_name.split())
normalize(s) == join(split(s))

\* re.IGNORECASE folds the letters of the pattern and of the subject.
LowerOf ==
    ("N" :> "n") @@ ("O" :> "o") @@ ("R" :> "r") @@ ("E" :> "e") @@ ("C" :> "c") @@
    ("D" :> "d") @@ ("S" :> "s") @@ ("F" :> "f") @@ ("U" :> "u") @@ ("M" :> "m") @@
    ("A" :> "a") @@ ("T" :> "t") @@ ("H" :> "h") @@ ("I" :> "i") @@ ("G" :> "g") @@
    ("Y" :> "y") @@ ("X" :> "x")

UpperOf ==
    ("n" :> "N") @@ ("o" :> "O") @@ ("r" :> "R") @@ ("e" :> "E") @@ ("c" :> "C") @@
    ("d" :> "D") @@ ("s" :> "S") @@ ("f" :> "F") @@ ("u" :> "U") @@ ("m" :> "M") @@
    ("a" :> "A") @@ ("t" :> "T") @@ ("h" :> "H") @@ ("i" :> "I") @@ ("g" :> "G") @@
    ("y" :> "Y") @@ ("x" :> "X")

casefold(ch) == IF ch \in DOMAIN LowerOf THEN LowerOf[ch] ELSE ch

upper(s) == [i \in DOMAIN s |-> IF s[i] \in DOMAIN UpperOf THEN UpperOf[s[i]] ELSE s[i]]

lower(s) == [i \in DOMAIN s |-> casefold(s[i])]

\* The pattern r"No records found matching your search criteria".
no_records_pattern ==
    <<"N","o"," ","r","e","c","o","r","d","s"," ","f","o","u","n","d"," ",
      "m","a","t","c","h","i","n","g"," ","y","o","u","r"," ",
      "s","e","a","r","c","h"," ","c","r","i","t","e","r","i","a">>

\* re.compile(pattern, re.IGNORECASE).search(text): a literal pattern matches at
\* some offset of the text, letters compared after case folding.
re_search_ignorecase(pattern, text) ==
    \E off \in 0..(Len(text) - Len(pattern)) :
        \A j \in DOMAIN pattern : casefold(text[off + j]) = casefold(pattern[j])

\* soup.find(string=regex): some single text node of the document matches.
soup_find_string(pattern, strings) ==
    \E i \in DOMAIN strings : re_search_ignorecase(pattern, strings[i])

----------------------------------------------------------------------------
(* The parsed document (BeautifulSoup) as scrape_county reads it           *)

NoneUrl == [origin |-> "None", path |-> <<>>]

\* An <a> element: present or not, its href attribute and its text.
\* href.kind: "missing" (no attribute), "empty" (href=""), "rooted" (/p),
\* "relative" (p), "absolute" (scheme://host/p), "invalid" (urlsplit raises
\* ValueError, e.g. "http://[").
NoHref == [kind |-> "missing", origin |-> "", path |-> <<>>]

NoLink == [present |-> FALSE, href |-> NoHref, text |-> <<>>]

Link(href, text) == [present |-> TRUE, href |-> href, text |-> text]

\* A <td>: its own text followed by an optional <a>.
Cell(text, link) == [text |-> text, link |-> link]

\* A <tr>: its <td> cells (a header row made of <th> has none).
Row(tds) == [tds |-> tds]

\* tag.get_text(strip=True): the stripped, non-empty strings of the tag, concatenated.
get_text_strip(cell) ==
    strip(cell.text) \o (IF cell.link.present THEN strip(cell.link.text) ELSE <<>>)

\* case_link.get("href")
raw_href(link) == link.href

\* Truthiness of raw_case_url: None and "" are falsy.
href_truthy(href) == href.kind \notin {"missing", "empty"}

\* urllib.parse.urljoin(base, ref) for the reference kinds above.
urljoin(base, href) ==
    CASE href.kind = "absolute" -> [origin |-> href.origin, path |-> href.path]
      [] href.kind = "rooted"   -> [origin |-> base.origin, path |-> href.path]
      [] href.kind = "relative" ->
            [origin |-> base.origin,
             path |-> SubSeq(base.path, 1, Len(base.path) - 1) \o href.path]
      [] OTHER -> base

\* urljoin raises ValueError on a reference urlsplit cannot parse.
urljoin_raises(href) == href.kind = "invalid"

\* Lines 128-151: does parsing this row raise inside the row-level try?
row_raises(row) ==
    LET case_link == row.tds[1].link
    IN  case_link.present /\ href_truthy(raw_href(case_link))
        /\ urljoin_raises(raw_href(case_link))

\* A record whose case number is the text of the whole first cell.
row_record_cell_text(county_name, url, row) ==
    LET cols == row.tds
        case_link == cols[1].link
        raw_case_url == raw_href(case_link)
        case_url ==
            IF case_link.present /\ href_truthy(raw_case_url)
            THEN urljoin(url, raw_case_url) ELSE NoneUrl
    IN  [county |-> county_name,
         caseNumber |-> get_text_strip(cols[1]),
         date |-> get_text_strip(cols[2]),
         party |-> get_text_strip(cols[3]),
         type |-> get_text_strip(cols[4]),
         status |-> get_text_strip(cols[5]),
         url |-> case_url]

\* Lines 128-151: the record of a row with at least 5 cells that does not raise.
row_record(county_name, url, row) ==
    LET cols == row.tds
        case_link == cols[1].link
        case_number ==
            IF case_link.present THEN strip(case_link.text) ELSE get_text_strip(cols[1])
        raw_case_url == raw_href(case_link)
        case_url ==
            IF case_link.present /\ href_truthy(raw_case_url)
            THEN urljoin(url, raw_case_url) ELSE NoneUrl
    IN  [county |-> county_name,
         caseNumber |-> case_number,
         date |-> get_text_strip(cols[2]),
         party |-> get_text_strip(cols[3]),
         type |-> get_text_strip(cols[4]),
         status |-> get_text_strip(cols[5]),
         url |-> case_url]

\* Lines 122-154: the loop over the rows, appending to results.
RECURSIVE parse_rows(_, _, _, _)
parse_rows(county_name, url, rows, results) ==
    IF rows = <<>> THEN results
    ELSE LET row == Head(rows)
         IN  IF Len(row.tds) < 5
             THEN parse_rows(county_name, url, Tail(rows), results)
             ELSE IF row_raises(row)
             THEN parse_rows(county_name, url, Tail(rows), results)
             ELSE parse_rows(county_name, url, Tail(rows),
                             Append(results, row_record(county_name, url, row)))

\* Lines 113-114: the rows of the first <tbody> when there is one, else every
\* <tr> of the table (header section included), in document order.
table_rows(table) == IF table.hasTbody THEN table.body ELSE table.head \o table.body

\* Lines 117-120: "skip header row if present".
skip_header(rows) == IF Len(rows) > 1 THEN Tail(rows) ELSE <<>>

\* The two result shapes of scrape_county.
ResultsResult(county_name, results) == [county |-> county_name, results |-> results]

ErrorResult(county_name, prefix, e) ==
    [county |-> county_name, error |-> [prefix |-> prefix, e |-> e]]

\* A no-records page reported as a failure.
no_records_as_error(county_name) ==
    ErrorResult(county_name, "Unexpected error: ", [what |-> "no records", status |-> 0])

\* Line 105: the page says no records were found.
no_records_result(county_name) == ResultsResult(county_name, <<>>)

\* Lines 107-111: neither table nor message; a warning is logged and the
\* function returns an empty result list.
no_table_result(county_name) == ResultsResult(county_name, <<>>)

\* Line 157: the table was walked.
table_result(county_name, url, table) ==
    ResultsResult(county_name,
                  parse_rows(county_name, url, skip_header(table_rows(table)), <<>>))

\* Which log line the no-table branch writes (lines 104 and 107-110).
no_table_log(page) ==
    IF soup_find_string(no_records_pattern, page.strings) THEN "info: No records found."
    ELSE "warning: Site structure may have changed."

\* Lines 92-157: everything after raise_for_status, for a page that parses.
extract(county_name, url, page) ==
    IF ~page.table.present
    THEN IF soup_find_string(no_records_pattern, page.strings)
         THEN no_records_result(county_name)
         ELSE no_table_result(county_name)
    ELSE table_result(county_name, url, page.table)

----------------------------------------------------------------------------
(* Inputs: pages, rows, query strings and responses the environment offers *)

\* Longest table body enumerated for the extractor.
MaxRows == 3

NoTable == [present |-> FALSE, hasTbody |-> FALSE, head |-> <<>>, body |-> <<>>]

Table(hasTbody, head, body) ==
    [present |-> TRUE, hasTbody |-> hasTbody, head |-> head, body |-> body]

\* A document: whether BeautifulSoup can build it at all, its text nodes outside
\* the results table, and the <table summary="Search Results"> if there is one.
Page(parses, strings, table) == [parses |-> parses, strings |-> strings, table |-> table]

Plain(text) == Cell(text, NoLink)

HrefRooted == [kind |-> "rooted", origin |-> "", path |-> <<"case", "1">>]
HrefInvalid == [kind |-> "invalid", origin |-> "", path |-> <<>>]
HrefRelative == [kind |-> "relative", origin |-> "", path |-> <<"case.php">>]
HrefAbsolute == [kind |-> "absolute", origin |-> "https://docs.example", path |-> <<"c", "7">>]
HrefEmpty == [kind |-> "empty", origin |-> "", path |-> <<>>]

\* <tr><th>..</th>...</tr>
HeaderRow == Row(<<>>)

\* A well-formed row whose first cell is a link, texts padded with whitespace.
GoodRowA ==
    Row(<<Cell(<<" ">>, Link(HrefRooted, <<" ", "A", "1", " ">>)),
          Plain(<<"0", "1", "/", "0", "2">>), Plain(<<" ", "J", " ", "S">>),
          Plain(<<"F", " ">>), Plain(<<"A", "c", "t">>)>>)

\* A well-formed row of six cells without a link.
GoodRowB ==
    Row(<<Plain(<<"B", "2", " ">>), Plain(<<"0", "3", "/", "0", "4">>),
          Plain(<<"K", " ", "T">>), Plain(<<" ", "L">>), Plain(<<"C", "l">>),
          Plain(<<"x">>)>>)

\* A well-formed row whose first cell has text before its link, and whose
\* party cell holds two text fragments.
GoodRowC ==
    Row(<<Cell(<<"#", " ">>, Link(HrefRelative, <<"E", "5", " ">>)),
          Plain(<<"0", "7">>), Cell(<<"G", " ">>, Link(NoHref, <<" ", "H">>)),
          Plain(<<"U">>), Plain(<<"V">>)>>)

\* Well-formed rows whose link has an empty target, and an absolute one.
GoodRowD ==
    Row(<<Cell(<<>>, Link(HrefEmpty, <<"F", "6">>)), Plain(<<"0", "8">>),
          Plain(<<"W">>), Plain(<<"X">>), Plain(<<"Y">>)>>)

GoodRowE ==
    Row(<<Cell(<<>>, Link(HrefAbsolute, <<"G", "7">>)), Plain(<<"0", "9">>),
          Plain(<<"Z">>), Plain(<<"I">>), Plain(<<"O">>)>>)

\* A malformed row: four cells.
ShortRow ==
    Row(<<Plain(<<"C", "3">>), Plain(<<"0", "5">>), Plain(<<"M">>), Plain(<<"N">>)>>)

\* A five-cell row whose link target makes urljoin raise.
RaisingRow ==
    Row(<<Cell(<<>>, Link(HrefInvalid, <<"D", "4">>)), Plain(<<"0", "6">>),
          Plain(<<"P">>), Plain(<<"Q">>), Plain(<<"R">>)>>)

WellFormedRows == {GoodRowA, GoodRowB, GoodRowC, GoodRowD, GoodRowE}

DataRowPool == WellFormedRows \cup {ShortRow, RaisingRow}

RECURSIVE SeqsUpTo(_, _)
SeqsUpTo(S, n) ==
    IF n = 0 THEN {<<>>}
    ELSE LET shorter == SeqsUpTo(S, n - 1)
         IN  shorter \cup {Append(q, x) : q \in {r \in shorter : Len(r) = n - 1}, x \in S}

\* Tables with one header row: in the first position of the rows that
\* find_all("tr") returns (inside <tbody>, or straight under <table>), or in a
\* <thead> of its own before a <tbody> that holds data rows only.
TablesWithHeader ==
    LET datas == SeqsUpTo(DataRowPool, MaxRows)
    IN  {Table(TRUE, <<>>, <<HeaderRow>> \o d) : d \in datas}
        \cup {Table(FALSE, <<>>, <<HeaderRow>> \o d) : d \in datas}
        \cup {Table(FALSE, <<HeaderRow>>, d) : d \in datas}
        \cup {Table(TRUE, <<HeaderRow>>, d) : d \in datas}

\* Text nodes a page without a results table may carry.
OtherText == <<"S", "e", "r", "v", "e", "r", " ", "b", "u", "s", "y">>

TextPool ==
    {no_records_pattern, upper(no_records_pattern), lower(no_records_pattern),
     <<"<", " ">> \o no_records_pattern \o <<".">>,
     SubSeq(no_records_pattern, 1, Len(no_records_pattern) - 1),
     OtherText, <<>>}

NoTableStrings ==
    {<<>>} \cup {<<t>> : t \in TextPool} \cup {<<OtherText, t>> : t \in TextPool}
    \cup {<<SubSeq(no_records_pattern, 1, 10), SubSeq(no_records_pattern, 11, 46)>>}

ExtractorPages ==
    {Page(TRUE, <<>>, t) : t \in TablesWithHeader}
    \cup {Page(TRUE, ss, NoTable) : ss \in NoTableStrings}

\* Pages a county site serves during a scan.
PageMismatch == Page(TRUE, <<OtherText>>, NoTable)
PageTable == Page(TRUE, <<>>, Table(TRUE, <<>>, <<HeaderRow, GoodRowA>>))
EmptyPage == Page(TRUE, <<>>, NoTable)

ServedPages == {PageMismatch, PageTable}

\* One answer to one request attempt: an HTTP response, or a transport failure.
HttpResponse(status, page) == [kind |-> "http", status |-> status, page |-> page]
Failure(kind) == [kind |-> kind, status |-> 0, page |-> EmptyPage]

AttemptOutcomes ==
    {HttpResponse(200, p) : p \in ServedPages}
    \cup {HttpResponse(404, EmptyPage), HttpResponse(500, EmptyPage)}
    \cup {Failure("timeout"), Failure("exception")}

\* The answers explored where the attempts of one call are followed one by
\* one: a 2xx, a 3xx, a 4xx and a forcelist 5xx final status, and a transport
\* failure.
FetchOutcomes ==
    {HttpResponse(200, PageTable), HttpResponse(300, PageTable)}
    \cup {HttpResponse(st, EmptyPage) : st \in {404, 500}}
    \cup {Failure("timeout")}

\* request.args.get("name"): None when the parameter is absent.
None == [isNone |-> TRUE, s |-> <<>>]
Str(s) == [isNone |-> FALSE, s |-> s]

RequestNames == {None, Str(<<>>), Str(<<" ", " ">>), Str(<<" ", "D", " ", " ", "J", " ">>)}

\* A check that only looks for a missing parameter.
truthy_unless_none(x) == ~x.isNone

\* Python truthiness of an optional string.
truthy(x) == ~x.isNone /\ x.s # <<>>

----------------------------------------------------------------------------
(* scrape_county: one request attempt after another, then the extraction   *)

\* A retry policy whose forcelist is every error status, 4xx included.
retries_every_error_status(outcome) ==
    \/ outcome.kind = "http" /\ outcome.status >= 400
    \/ outcome.kind = "timeout"

\* urllib3 retries an attempt that ended in a forcelist status or in a
\* connection/read failure (POST is among allowed_methods).
is_retryable(outcome) ==
    \/ outcome.kind = "http" /\ outcome.status \in status_forcelist
    \/ outcome.kind = "timeout"

\* A status check that lets every response through.
never_raises_for_status(status) == FALSE

\* Response.raise_for_status(): HTTPError for 4xx and 5xx.
raises_for_status(status) == 400 <= status /\ status < 600

Cause(what, status) == [what |-> what, status |-> status]

\* Lines 88-167: the dict scrape_county returns, given how session.post ended.
scrape_result(county_name, url, outcome) ==
    CASE outcome.kind = "exception" ->
            ErrorResult(county_name, "Unexpected error: ", Cause("exception in post", 0))
      [] outcome.kind = "timeout" ->
            ErrorResult(county_name, "Connection error: ", Cause("max retries: timeout", 0))
      [] outcome.kind = "http" /\ outcome.status \in status_forcelist ->
            ErrorResult(county_name, "Connection error: ",
                        Cause("max retries: too many error responses", outcome.status))
      [] outcome.kind = "http" /\ outcome.status \notin status_forcelist
            /\ raises_for_status(outcome.status) ->
            ErrorResult(county_name, "HTTP error: ", Cause("status", outcome.status))
      [] OTHER ->
            IF outcome.page.parses THEN extract(county_name, url, outcome.page)
            ELSE ErrorResult(county_name, "Unexpected error: ", Cause("parser", 0))

----------------------------------------------------------------------------
(* scan_courts: the fold of one finished future and the response           *)

Put(f, k, v) == [x \in (DOMAIN f) \cup {k} |-> IF x = k THEN v ELSE f[x]]

EmptyMap == [x \in {} |-> <<>>]

Returned(result) == [done |-> TRUE, raised |-> FALSE, result |-> result]
Raised(county_name) == [done |-> TRUE, raised |-> TRUE, result |-> [county |-> county_name]]
Pending == [done |-> FALSE, raised |-> FALSE, result |-> [county |-> ""]]

\* The class of the exception raised inside scrape_county's try block, given
\* how session.post ended: requests wraps exhausted retries and transport
\* failures in RequestException subclasses, raise_for_status raises HTTPError,
\* anything else (BeautifulSoup failing included) is a plain Exception.
raised_in_try(outcome) ==
    CASE outcome.kind = "exception" -> "Exception"
      [] outcome.kind = "timeout" -> "RequestException"
      [] outcome.kind = "http" /\ outcome.status \in status_forcelist -> "RequestException"
      [] outcome.kind = "http" /\ outcome.status \notin status_forcelist
            /\ raises_for_status(outcome.status) -> "HTTPError"
      [] OTHER -> IF outcome.page.parses THEN "none" ELSE "Exception"

\* HTTPError is a RequestException, which is an Exception.
is_subclass(cls, base) ==
    \/ cls = base
    \/ base = "Exception"
    \/ cls = "HTTPError" /\ base = "RequestException"

\* Handlers for the request errors only.
except_request_errors_only == <<"HTTPError", "RequestException">>

\* Lines 159, 162, 165: the except clauses of scrape_county's try block.
except_clauses == <<"HTTPError", "RequestException", "Exception">>

\* Lines 88-167: what the Future of county c gets: the dict scrape_county
\* returns, or the exception that no except clause caught.
scrape_future(c, outcome, returned) ==
    IF raised_in_try(outcome) = "none"
       \/ \E i \in DOMAIN except_clauses : is_subclass(raised_in_try(outcome), except_clauses[i])
    THEN Returned(returned)
    ELSE Raised(c)

\* An except clause that matches nothing.
except_nothing(fut) == FALSE

\* Line 211: `except Exception` around future.result() matches whatever
\* scrape_county raised.
except_Exception(fut) == fut.raised

UnhandledMessage == [prefix |-> "Unhandled exception: ", e |-> Cause("raised in worker", 0)]

\* A fold that loses a future that raised.
fold_errors_drop_raised(errs, county, fut) ==
    IF ~fut.raised /\ "error" \in DOMAIN fut.result
    THEN Put(errs, county, fut.result.error) ELSE errs

\* A fold that gives up on first failure: every county not yet filed is marked failed.
fold_errors_cancel_rest(errs, county, fut) ==
    IF fut.raised \/ "error" \in DOMAIN fut.result
    THEN [x \in Counties |->
            IF x \in DOMAIN errs THEN errs[x]
            ELSE IF fut.raised THEN UnhandledMessage ELSE fut.result.error]
    ELSE errs

\* Lines 209-217: what the fold makes of `errors` for one completed future.
fold_errors(errs, county, fut) ==
    IF fut.raised THEN Put(errs, county, UnhandledMessage)
    ELSE IF "error" \in DOMAIN fut.result THEN Put(errs, county, fut.result.error)
    ELSE errs

\* A merge that files each record list under the next county of COUNTY_URLS,
\* in the order the futures complete.
fold_results_by_arrival(res, county, fut) ==
    IF fut.raised THEN res
    ELSE IF "error" \in DOMAIN fut.result THEN res
    ELSE Put(res, CountyOrder[Cardinality(DOMAIN res) + 1],
             IF "results" \in DOMAIN fut.result THEN fut.result.results ELSE <<>>)

\* Lines 209-219: what the fold makes of `results_by_county`.
fold_results(res, county, fut) ==
    IF fut.raised THEN res
    ELSE IF "error" \in DOMAIN fut.result THEN res
    ELSE Put(res, county,
             IF "results" \in DOMAIN fut.result THEN fut.result.results ELSE <<>>)

\* Lines 221-230.
scan_response(query, res, errs) ==
    [status |-> 200,
     body |-> IF errs # EmptyMap
              THEN [query |-> query, queriedAt |-> "utcnow", counties |-> CountyOrder,
                    results |-> res, errors |-> errs]
              ELSE [query |-> query, queriedAt |-> "utcnow", counties |-> CountyOrder,
                    results |-> res]]

\* Line 192.
missing_name_response == [status |-> 400, body |-> [error |-> "Missing 'name' parameter."]]

\* What the framework answers when an exception leaves the view function.
internal_error_response == [status |-> 500, body |-> [error |-> "Internal Server Error"]]

NoResponse == [status |-> 0, body |-> [none |-> TRUE]]

----------------------------------------------------------------------------
(* State                                                                   *)

VARIABLES
    max_workers,       \* MAX_WORKERS, read from the environment at start
    pc,                \* where the request handler is
    search_name,       \* request.args.get("name")
    normalized_name,   \* line 195
    task,              \* per county: unsubmitted, queued, running, finished
    work_queue,        \* the executor's queue of submitted work items
    party_name,        \* per county: the search_name argument of its work item
    total,             \* per county: retries the Retry object of the call in progress
                       \* still allows (the object is dropped when the call ends)
    final,             \* per county: the attempt outcome that ended session.post
    future,            \* per county: the Future of its work item
    yielded,           \* counties whose future as_completed has handed out
    results_by_county, \* line 198
    errors,            \* line 199
    response,          \* what the handler returned
    probe,             \* one extractor run on an enumerated page
    history,           \* per county: Retry.history of the call in progress, the
                       \* outcomes of the attempts urllib3 has retried so far
    session            \* the module-level requests.Session: its cookie jar and,
                       \* per county, the Cookie header of a request in flight

vars == <<max_workers, pc, search_name, normalized_name, task, work_queue, party_name,
          total, final, future, yielded, results_by_county, errors, response, probe, history, session>>

scan_vars == <<max_workers, pc, search_name, normalized_name, task, work_queue,
               party_name, total, final, future, yielded, results_by_county,
               errors, response, history, session>>

\* The MAX_WORKERS override explored besides the default.
OverrideWorkers == 1

\* Line 40: MAX_WORKERS is len(COUNTY_URLS) unless the environment overrides it.
WorkerChoices == {Len(CountyOrder), OverrideWorkers}

NoAttempt == Failure("none")

\* Line 54: a new Session has an empty cookie jar; no request is in flight.
NoCookies == [c \in Counties |-> {}]

NewSession == [cookies |-> {}, in_flight |-> {}, sent_cookies |-> NoCookies]

NoHistory == [c \in Counties |-> <<>>]

NoProbe == [county |-> "", page |-> EmptyPage, done |-> FALSE, result |-> [county |-> ""]]

FreshScan ==
    /\ task = [c \in Counties |-> "unsubmitted"]
    /\ work_queue = <<>>
    /\ party_name = [c \in Counties |-> <<>>]
    /\ total = [c \in Counties |-> RetryTotal]
    /\ final = [c \in Counties |-> NoAttempt]
    /\ future = [c \in Counties |-> Pending]
    /\ yielded = {}
    /\ results_by_county = EmptyMap
    /\ errors = EmptyMap
    /\ response = NoResponse

Init ==
    /\ max_workers \in WorkerChoices
    /\ pc = "idle"
    /\ search_name = None
    /\ normalized_name = <<>>
    /\ FreshScan
    /\ probe = NoProbe
    /\ history = NoHistory
    /\ session = NewSession

----------------------------------------------------------------------------
(* Actions                                                                 *)

\* scrape_county's return value per county and final attempt outcome, tabulated.
scrape_table ==
    [c \in Counties, o \in AttemptOutcomes \cup FetchOutcomes |->
        scrape_result(c, COUNTY_URLS[c], o)]

\* A GET /api/scan arrives (the previous one, if any, has been answered).
receive_request(name) ==
    /\ pc \in {"idle", "responded"}
    /\ pc' = "received"
    /\ search_name' = name
    /\ normalized_name' = <<>>
    /\ task' = [c \in Counties |-> "unsubmitted"]
    /\ work_queue' = <<>>
    /\ party_name' = [c \in Counties |-> <<>>]
    /\ total' = [c \in Counties |-> RetryTotal]
    /\ final' = [c \in Counties |-> NoAttempt]
    /\ future' = [c \in Counties |-> Pending]
    /\ yielded' = {}
    /\ results_by_county' = EmptyMap
    /\ errors' = EmptyMap
    /\ response' = NoResponse
    /\ history' = NoHistory
    /\ UNCHANGED <<max_workers, probe, session>>

\* Lines 190-192: `if not search_name` answers 400.
reject_missing_name ==
    /\ pc = "received"
    /\ ~truthy(search_name)
    /\ response' = missing_name_response
    /\ pc' = "responded"
    /\ UNCHANGED <<max_workers, search_name, normalized_name, task, work_queue, party_name,
                   total, final, future, yielded, results_by_county, errors, probe, history, session>>

\* Lines 195-201: normalize, create the two dicts, open the executor.
start_scan ==
    /\ pc = "received"
    /\ truthy(search_name)
    /\ normalized_name' = normalize(search_name.s)
    /\ results_by_county' = EmptyMap
    /\ errors' = EmptyMap
    /\ pc' = "submit"
    /\ UNCHANGED <<max_workers, search_name, task, work_queue, party_name, total,
                   final, future, yielded, response, probe, history, session>>

\* The county the dict comprehension of lines 202-205 submits next.
NextToSubmit ==
    CountyOrder[CHOOSE i \in DOMAIN CountyOrder :
                    /\ task[CountyOrder[i]] = "unsubmitted"
                    /\ \A j \in 1..(i - 1) : task[CountyOrder[j]] # "unsubmitted"]

\* Line 203: executor.submit(scrape_county, county, url, normalized_name).
submit ==
    /\ pc = "submit"
    /\ \E c \in Counties : task[c] = "unsubmitted"
    /\ LET c == NextToSubmit
       IN  /\ task' = [task EXCEPT ![c] = "queued"]
           /\ work_queue' = Append(work_queue, c)
           /\ party_name' = [party_name EXCEPT ![c] = normalized_name]
    /\ UNCHANGED <<max_workers, pc, search_name, normalized_name, total, final,
                   future, yielded, results_by_county, errors, response, probe, history, session>>

\* Line 207: every county is submitted; the handler enters as_completed.
enter_as_completed ==
    /\ pc = "submit"
    /\ \A c \in Counties : task[c] # "unsubmitted"
    /\ pc' = "collect"
    /\ UNCHANGED <<max_workers, search_name, normalized_name, task, work_queue, party_name,
                   total, final, future, yielded, results_by_county, errors,
                   response, probe, history, session>>

Running == {c \in Counties : task[c] = "running"}

\* A pool thread takes the oldest queued work item; the pool has at most
\* max_workers threads, each busy with one item until it finishes.
worker_start ==
    /\ work_queue # <<>>
    /\ Cardinality(Running) < max_workers
    /\ task' = [task EXCEPT ![Head(work_queue)] = "running"]
    /\ work_queue' = Tail(work_queue)
    /\ UNCHANGED <<max_workers, pc, search_name, normalized_name, party_name, total,
                   final, future, yielded, results_by_county, errors, response, probe, history, session>>

\* Line 89, one attempt that urllib3 retries: the Retry budget goes down by one
\* and the request is sent again. Retry.history is not kept here.
post_attempt_retried(c, outcome) ==
    /\ task[c] = "running"
    /\ is_retryable(outcome)
    /\ total[c] > 0
    /\ total' = [total EXCEPT ![c] = total[c] - 1]
    /\ UNCHANGED <<max_workers, pc, search_name, normalized_name, task, work_queue,
                   party_name, final, future, yielded, results_by_county, errors,
                   response, probe, history, session>>

\* A retry without a budget: the attempt is repeated however many came before.
post_attempt_unbounded(c, outcome) ==
    /\ task[c] = "running"
    /\ is_retryable(outcome)
    /\ total' = [total EXCEPT ![c] = total[c] - 1]
    /\ history' = [history EXCEPT ![c] = Append(@, outcome)]
    /\ UNCHANGED <<max_workers, pc, search_name, normalized_name, task, work_queue,
                   party_name, final, future, yielded, results_by_county, errors,
                   response, probe, session>>

\* Line 89, the same retried attempt with Retry.history kept: the attempt's
\* outcome is appended to the history of the call in progress.
post_attempt_recorded(c, outcome) ==
    /\ task[c] = "running"
    /\ is_retryable(outcome)
    /\ total[c] > 0
    /\ total' = [total EXCEPT ![c] = total[c] - 1]
    /\ history' = [history EXCEPT ![c] = Append(@, outcome)]
    /\ UNCHANGED <<max_workers, pc, search_name, normalized_name, task, work_queue,
                   party_name, final, future, yielded, results_by_county, errors,
                   response, probe, session>>

\* Lines 89-167: the attempt that ends session.post (a response that is not
\* retried, or a failure with the Retry budget used up), and the rest of
\* scrape_county on it; the Future gets the returned dict.
post_attempt_final(c, outcome) ==
    /\ task[c] = "running"
    /\ is_retryable(outcome) => total[c] = 0
    /\ total' = [total EXCEPT ![c] = RetryTotal]
    /\ history' = [history EXCEPT ![c] = <<>>]
    /\ final' = [final EXCEPT ![c] = outcome]
    /\ future' = [future EXCEPT ![c] = scrape_future(c, outcome, scrape_table[c, outcome])]
    /\ task' = [task EXCEPT ![c] = "finished"]
    /\ UNCHANGED <<max_workers, pc, search_name, normalized_name, work_queue, party_name,
                   yielded, results_by_county, errors, response, probe, session>>

\* An exception leaves scrape_county itself (raised outside its try block,
\* line 79, before any request is sent); the Future holds the exception.
worker_raises(c) ==
    /\ task[c] = "running"
    /\ total[c] = RetryTotal
    /\ future' = [future EXCEPT ![c] = Raised(c)]
    /\ task' = [task EXCEPT ![c] = "finished"]
    /\ UNCHANGED <<max_workers, pc, search_name, normalized_name, work_queue, party_name,
                   total, final, yielded, results_by_county, errors, response, probe, history, session>>

\* Lines 207-219: as_completed hands out one completed future and the loop
\* body files its outcome.
fold(c) ==
    /\ pc = "collect"
    /\ c \notin yielded
    /\ future[c].done
    /\ yielded' = yielded \cup {c}
    /\ IF future[c].raised /\ ~except_Exception(future[c])
       THEN \* the exception leaves scan_courts; the framework answers 500
            /\ pc' = "responded"
            /\ response' = internal_error_response
            /\ UNCHANGED <<errors, results_by_county>>
       ELSE /\ errors' = fold_errors(errors, c, future[c])
            /\ results_by_county' = fold_results(results_by_county, c, future[c])
            /\ UNCHANGED <<pc, response>>
    /\ UNCHANGED <<max_workers, search_name, normalized_name, task, work_queue,
                   party_name, total, final, future, probe, history, session>>

\* A wait that ends with the first completed future.
first_completed == yielded # {}

\* Line 207: the for loop over as_completed(futures) ends when every future
\* has been handed out.
as_completed_exhausted == yielded = Counties

\* Lines 221-230: as_completed is exhausted, the executor has shut down.
build_response ==
    /\ pc = "collect"
    /\ as_completed_exhausted
    /\ response' = scan_response(normalized_name, results_by_county, errors)
    /\ pc' = "responded"
    /\ UNCHANGED <<max_workers, search_name, normalized_name, task, work_queue, party_name,
                   total, final, future, yielded, results_by_county, errors, probe, history, session>>

Next ==
    \/ \E name \in RequestNames : receive_request(name)
    \/ reject_missing_name
    \/ start_scan
    \/ submit
    \/ enter_as_completed
    \/ worker_start
    \/ \E c \in Counties, outcome \in AttemptOutcomes : post_attempt_retried(c, outcome)
    \/ \E c \in Counties, outcome \in AttemptOutcomes : post_attempt_final(c, outcome)
    \/ \E c \in Counties : worker_raises(c)
    \/ \E c \in Counties : fold(c)
    \/ build_response

Spec == Init /\ [][Next]_vars

\* The answers explored where progress is checked: a page, a status that is
\* retried, and a transport failure.
LiveOutcomes ==
    {HttpResponse(200, PageTable), HttpResponse(500, EmptyPage), Failure("timeout")}

\* One request attempt of county c's call ends, one way or another.
attempt_ends(c) ==
    \/ \E outcome \in LiveOutcomes : post_attempt_retried(c, outcome)
    \/ \E outcome \in LiveOutcomes : post_attempt_final(c, outcome)
    \/ worker_raises(c)

NextLive ==
    \/ \E name \in RequestNames : receive_request(name)
    \/ reject_missing_name
    \/ start_scan
    \/ submit
    \/ enter_as_completed
    \/ worker_start
    \/ \E c \in Counties : attempt_ends(c)
    \/ \E c \in Counties : fold(c)
    \/ build_response

\* The handler thread and the pool threads keep running, and every request
\* attempt ends (REQUEST_TIMEOUT, line 89); nothing is assumed about when the
\* next request arrives.
Fairness ==
    /\ WF_vars(reject_missing_name)
    /\ WF_vars(start_scan)
    /\ WF_vars(submit)
    /\ WF_vars(enter_as_completed)
    /\ WF_vars(worker_start)
    /\ \A c \in Counties : WF_vars(attempt_ends(c))
    /\ \A c \in Counties : WF_vars(fold(c))
    /\ WF_vars(build_response)

SpecLive == Init /\ [][NextLive]_vars /\ Fairness

----------------------------------------------------------------------------
(* One scan with every request attempt recorded                             *)

FetchNames == {Str(<<" ", "D", " ", " ", "J", " ">>)}

InitFetch ==
    /\ max_workers = OverrideWorkers
    /\ pc = "idle"
    /\ search_name = None
    /\ normalized_name = <<>>
    /\ FreshScan
    /\ probe = NoProbe
    /\ history = NoHistory
    /\ session = NewSession

NextFetch ==
    \/ \E name \in FetchNames : receive_request(name)
    \/ start_scan
    \/ submit
    \/ enter_as_completed
    \/ worker_start
    \/ \E c \in Counties, outcome \in FetchOutcomes : post_attempt_recorded(c, outcome)
    \/ \E c \in Counties, outcome \in FetchOutcomes : post_attempt_final(c, outcome)
    \/ \E c \in Counties : fold(c)
    \/ build_response

SpecFetch == InitFetch /\ [][NextFetch]_vars

----------------------------------------------------------------------------
(* The extractor on enumerated pages                                        *)

InitExtract ==
    /\ max_workers = Len(CountyOrder)
    /\ pc = "idle"
    /\ search_name = None
    /\ normalized_name = <<>>
    /\ FreshScan
    /\ history = NoHistory
    /\ session = NewSession
    /\ \E c \in Counties, p \in ExtractorPages :
            probe = [county |-> c, page |-> p, done |-> FALSE, result |-> [county |-> ""]]

\* Lines 92-157 on the probe's page.
run_extract ==
    /\ ~probe.done
    /\ probe' = [probe EXCEPT !.done = TRUE,
                              !.result = extract(probe.county, COUNTY_URLS[probe.county],
                                                 probe.page)]
    /\ UNCHANGED scan_vars

NextExtract == run_extract

SpecExtract == InitExtract /\ [][NextExtract]_vars

----------------------------------------------------------------------------
(* The shared Session's cookie jar                                          *)

\* Set-Cookie headers a county's server may answer with: none, a cookie scoped
\* to the whole site (Path=/, PHP's default for its session cookie), or a
\* cookie with no Path attribute.
NoSetCookie == [present |-> FALSE, path |-> "absent"]

SetCookie(path) == [present |-> TRUE, path |-> path]

SetCookieHeaders == {NoSetCookie, SetCookie("/"), SetCookie("absent")}

\* The path of the request URL, as segments.
request_path(c) == COUNTY_URLS[c].path

\* The cookie jar's default for a cookie without a Path attribute: the request
\* path up to its last "/".
default_path(c) == SubSeq(request_path(c), 1, Len(request_path(c)) - 1)

\* The cookie the jar extracts from county c's response. Every server names
\* its cookie alike; `setter` stands for the value, which is the state the
\* answering county's server attached to the client.
cookie_of(c, header) ==
    [name |-> "PHPSESSID",
     domain |-> COUNTY_URLS[c].origin,
     path |-> IF header.path = "/" THEN <<>> ELSE default_path(c),
     setter |-> c]

IsPrefix(p, q) == Len(p) <= Len(q) /\ SubSeq(q, 1, Len(p)) = p

\* The jar returns a cookie with a request when domain and path match.
cookie_matches(ck, c) ==
    /\ ck.domain = COUNTY_URLS[c].origin
    /\ IsPrefix(ck.path, request_path(c))

\* The jar holds one cookie per (domain, path, name); a new one replaces it.
same_slot(a, b) == a.domain = b.domain /\ a.path = b.path /\ a.name = b.name

set_cookie(jar, ck) == {old \in jar : ~same_slot(old, ck)} \cup {ck}

\* Line 89, seen from the session: session.post prepares county c's request
\* and merges the matching cookies of the session's jar into it.
session_send(c) ==
    /\ c \notin session.in_flight
    /\ Cardinality(session.in_flight) < max_workers
    /\ session' = [session EXCEPT
                      !.in_flight = @ \cup {c},
                      !.sent_cookies[c] = {ck \in session.cookies : cookie_matches(ck, c)}]
    /\ UNCHANGED <<max_workers, pc, search_name, normalized_name, task, work_queue,
                   party_name, total, final, future, yielded, results_by_county,
                   errors, response, probe, history>>

\* Line 89, the response arrives: the session stores the response's cookies
\* in its jar, and the request is over.
session_receive(c, header) ==
    /\ c \in session.in_flight
    /\ session' = [session EXCEPT
                      !.in_flight = @ \ {c},
                      !.sent_cookies[c] = {},
                      !.cookies = IF header.present
                                  THEN set_cookie(@, cookie_of(c, header)) ELSE @]
    /\ UNCHANGED <<max_workers, pc, search_name, normalized_name, task, work_queue,
                   party_name, total, final, future, yielded, results_by_county,
                   errors, response, probe, history>>

NextSession ==
    \/ \E c \in Counties : session_send(c)
    \/ \E c \in Counties, header \in SetCookieHeaders : session_receive(c, header)

SpecSession == Init /\ [][NextSession]_vars

----------------------------------------------------------------------------
(* Properties                                                               *)

Responded200 == pc = "responded" /\ response.status = 200

ResponseResults == response.body.results

ResponseErrors == IF "errors" \in DOMAIN response.body THEN response.body.errors ELSE EmptyMap

\* C1: once scan_courts has answered a valid query, the response lists every
\* configured county, and every configured county is a key of exactly one of
\* `results` and `errors`, whatever each pipeline's outcome and completion order.
C1_ExactlyOneMapping ==
    Responded200 =>
        /\ response.body.counties = CountyOrder
        /\ DOMAIN ResponseResults \cup DOMAIN ResponseErrors = Counties
        /\ DOMAIN ResponseResults \cap DOMAIN ResponseErrors = {}

\* A response that mixes all outcome kinds: a result list, an empty list, a
\* reported error and a worker that raised.
C1_Witness ==
    /\ Responded200
    /\ \E a, b, c, d \in Counties :
        /\ future[a].raised
        /\ ~future[b].raised /\ "error" \in DOMAIN future[b].result
        /\ ~future[c].raised /\ "results" \in DOMAIN future[c].result
            /\ future[c].result.results # <<>>
        /\ ~future[d].raised /\ "results" \in DOMAIN future[d].result
            /\ future[d].result.results = <<>>

\* The entry county t is owed, from t's own outcome alone.
OwnEntry(t) ==
    IF future[t].raised THEN [map |-> "errors", value |-> UnhandledMessage]
    ELSE LET r == scrape_table[t, final[t]]
         IN  IF "error" \in DOMAIN r THEN [map |-> "errors", value |-> r.error]
             ELSE [map |-> "results", value |-> r.results]

HasEntry(res, errs, t, entry) ==
    IF entry.map = "errors"
    THEN t \in DOMAIN errs /\ errs[t] = entry.value /\ t \notin DOMAIN res
    ELSE t \in DOMAIN res /\ res[t] = entry.value /\ t \notin DOMAIN errs

\* C2: a failure in one county's pipeline never cancels another's: every filed
\* county, and in the response every county, has exactly the entry its own
\* fetch/extract outcome determines, and counties still running have none.
C2_EntryFromOwnOutcome ==
    /\ pc \in {"collect", "responded"} /\ response.status # 400 =>
        /\ \A t \in yielded : HasEntry(results_by_county, errors, t, OwnEntry(t))
        /\ \A t \in Counties \ yielded :
                t \notin DOMAIN results_by_county /\ t \notin DOMAIN errors
    /\ Responded200 =>
        \A t \in Counties : HasEntry(ResponseResults, ResponseErrors, t, OwnEntry(t))

\* Three counties failed in three ways (timeout, retries used up on 500s, a
\* raising worker) and the fourth still has its records in the response.
C2_Witness ==
    /\ Responded200
    /\ \E s1, s2, s3, t \in Counties :
        /\ final[s1].kind = "timeout"
        /\ final[s2].kind = "http" /\ final[s2].status = 500
        /\ future[s3].raised
        /\ final[t] = HttpResponse(200, PageTable)
        /\ t \in DOMAIN ResponseResults /\ ResponseResults[t] # <<>>

\* The page of county c came back with a success status and could be parsed.
GotPage(c) ==
    /\ ~future[c].raised
    /\ final[c].kind = "http" /\ ~raises_for_status(final[c].status)
    /\ final[c].status \notin status_forcelist
    /\ final[c].page.parses

RECURSIVE Concat(_)
Concat(strings) == IF strings = <<>> THEN <<>> ELSE Head(strings) \o Concat(Tail(strings))

\* The text contains the phrase, letter case aside.
ContainsPhrase(text) ==
    \E i \in 1..Len(text) : \E j \in i..Len(text) :
        lower(SubSeq(text, i, j)) = lower(no_records_pattern)

\* C3: a page with neither the results table nor the no-records phrase is a
\* structural mismatch: its county is reported under `errors` and not as an
\* empty list under `results`.
C3_MismatchReportedAsError ==
    Responded200 =>
        \A c \in Counties :
            (GotPage(c) /\ ~final[c].page.table.present
                /\ ~ContainsPhrase(Concat(final[c].page.strings)))
            => (c \in DOMAIN ResponseErrors /\ c \notin DOMAIN ResponseResults)

NameMissingOrEmpty == search_name = None \/ search_name = Str(<<>>)

NothingDispatched ==
    /\ \A c \in Counties :
        /\ task[c] = "unsubmitted"
        /\ total[c] = RetryTotal
        /\ final[c] = NoAttempt
        /\ ~future[c].done
    /\ work_queue = <<>>

\* C4: a request whose name parameter is missing or empty is answered 400 with
\* an `error` field, and for it no work item is submitted, no worker runs and
\* no request goes out to any county.
C4_MissingNameRejected ==
    (pc # "idle" /\ NameMissingOrEmpty) =>
        /\ pc \in {"received", "responded"}
        /\ NothingDispatched
        /\ pc = "responded" =>
            (response.status = 400 /\ "error" \in DOMAIN response.body)

C4_Witness ==
    /\ pc = "responded"
    /\ search_name = Str(<<>>)
    /\ response = missing_name_response
    /\ NothingDispatched

\* C5: whenever a county's pipeline has been dispatched, the normalized query
\* handed to it is non-empty (a whitespace-only name is rejected beforehand).
C5_DispatchedQueryNonEmpty ==
    \A c \in Counties : task[c] # "unsubmitted" => party_name[c] # <<>>

\* How the fetch of county c failed, if it did.
FetchFailed(c) ==
    /\ ~future[c].raised
    /\ \/ final[c].kind = "timeout"
       \/ final[c].kind = "http" /\ final[c].status >= 400

\* C6: a fetch failure (timeout, retries used up, HTTP error status) is
\* contained at its county: the county has an entry under `errors` and none
\* under `results`, the scan answers 200, and when every county fails `results`
\* is empty and `errors` has one entry per county.
C6_FetchFailureContained ==
    /\ (pc = "responded" /\ truthy(search_name)) => response.status = 200
    /\ Responded200 =>
        /\ \A c \in Counties :
            FetchFailed(c) =>
                /\ c \in DOMAIN ResponseErrors
                /\ ResponseErrors[c].prefix \in {"HTTP error: ", "Connection error: "}
                /\ c \notin DOMAIN ResponseResults
        /\ (\A c \in Counties : FetchFailed(c)) =>
                (ResponseResults = EmptyMap /\ DOMAIN ResponseErrors = Counties)

\* Every county failed, in each of the three ways.
C6_Witness ==
    /\ Responded200
    /\ \A c \in Counties : FetchFailed(c)
    /\ \E a, b, c \in Counties :
        /\ final[a].kind = "timeout"
        /\ final[b] = HttpResponse(404, EmptyPage)
        /\ final[c] = HttpResponse(500, EmptyPage)
    /\ ResponseResults = EmptyMap

\* C7: a page without the results table that contains the phrase "No records
\* found matching your search criteria", in any letter case, gives the county an
\* empty record list, filed under `results` and not under `errors`.
C7_NoRecordsIsEmptyResult ==
    (probe.done /\ ~probe.page.table.present
        /\ ContainsPhrase(Concat(probe.page.strings))) =>
        LET fut == Returned(probe.result)
        IN  /\ probe.result = [county |-> probe.county, results |-> <<>>]
            /\ fold_results(EmptyMap, probe.county, fut) = Put(EmptyMap, probe.county, <<>>)
            /\ fold_errors(EmptyMap, probe.county, fut) = EmptyMap

\* The phrase arrived in capitals inside a longer page.
C7_Witness ==
    /\ probe.done
    /\ probe.page = Page(TRUE, <<OtherText, upper(no_records_pattern)>>, NoTable)
    /\ probe.result.results = <<>>

\* The data rows of a table with one header row.
DataRows(table) == IF table.head = <<>> THEN Tail(table.body) ELSE table.body

IsWellFormed(row) == Len(row.tds) >= 5 /\ ~row_raises(row)

RECURSIVE RecordsOf(_, _, _)
RecordsOf(county_name, url, rows) ==
    IF rows = <<>> THEN <<>>
    ELSE (IF IsWellFormed(Head(rows))
          THEN <<row_record(county_name, url, Head(rows))>> ELSE <<>>)
         \o RecordsOf(county_name, url, Tail(rows))

ProbeUrl == COUNTY_URLS[probe.county]

\* C8: a table with one header row and R well-formed data rows yields exactly
\* R records, the i-th from the i-th data row, wherever the header row sits.
C8_AllWellFormedRowsExtracted ==
    (probe.done /\ probe.page.table.present
        /\ \A i \in DOMAIN DataRows(probe.page.table) :
                DataRows(probe.page.table)[i] \in WellFormedRows) =>
        /\ Len(probe.result.results) = Len(DataRows(probe.page.table))
        /\ probe.result.results = RecordsOf(probe.county, ProbeUrl, DataRows(probe.page.table))

\* C9: a data row with fewer than five cells, or whose parsing raises, yields
\* no record, and all the well-formed data rows of the table, before and after
\* it, yield their records in order.
C9_RowFailureContained ==
    (probe.done /\ probe.page.table.present) =>
        probe.result = [county |-> probe.county,
                        results |-> RecordsOf(probe.county, ProbeUrl,
                                              DataRows(probe.page.table))]

\* The same statement for tables whose header row is the first row that
\* find_all("tr") returns.
HeaderFirst_RowFailureContained ==
    (probe.done /\ probe.page.table.present /\ ~(probe.page.table.hasTbody
                                                 /\ probe.page.table.head # <<>>)) =>
        probe.result = [county |-> probe.county,
                        results |-> RecordsOf(probe.county, ProbeUrl,
                                              DataRows(probe.page.table))]

Entry(res, errs, t) ==
    [inResults |-> t \in DOMAIN res, inErrors |-> t \in DOMAIN errs,
     value |-> IF t \in DOMAIN res THEN <<res[t]>>
               ELSE IF t \in DOMAIN errs THEN <<errs[t]>> ELSE <<>>]

C10_Caught ==
    /\ (pc = "responded" /\ truthy(search_name)) => response.status = 200
    /\ \A c \in yielded :
        /\ future[c].raised =>
            /\ c \in DOMAIN errors /\ errors[c].prefix = "Unhandled exception: "
            /\ c \notin DOMAIN results_by_county
        /\ (~future[c].raised /\ final[c].kind = "exception") =>
            /\ c \in DOMAIN errors /\ errors[c].prefix = "Unexpected error: "
            /\ c \notin DOMAIN results_by_county
    /\ Responded200 =>
        \A c \in Counties :
            (future[c].raised \/ final[c].kind = "exception") =>
                (c \in DOMAIN ResponseErrors /\ c \notin DOMAIN ResponseResults)

C10_OthersKept ==
    pc' # "received" =>
        \A t \in yielded :
            Entry(results_by_county', errors', t) = Entry(results_by_county, errors, t)

\* C10: an unexpected exception in one county's pipeline (raised under
\* session.post or by the worker function itself) becomes that county's entry
\* under `errors`; the scan still answers 200, and filing it leaves every
\* other county's entry as it was.
C10_UnexpectedExceptionContained == [](C10_Caught) /\ [][C10_OthersKept]_vars

\* One worker raised, another hit an unexpected exception while fetching, and
\* a third county's records are in the answer.
C10_Witness ==
    /\ Responded200
    /\ \E a, b, c \in Counties :
        /\ future[a].raised
        /\ ~future[b].raised /\ final[b].kind = "exception"
        /\ c \in DOMAIN ResponseResults /\ ResponseResults[c] # <<>>
        /\ {a, b} \subseteq DOMAIN ResponseErrors

\* C11: no cookie set by one county's response is sent with a request for
\* another county, in the same scan or a later one.
C11_NoCookieLeak ==
    \A t \in Counties : \A ck \in session.sent_cookies[t] : ck.setter = t

Is4xx(outcome) == outcome.kind = "http" /\ 400 <= outcome.status /\ outcome.status < 500

LastOf(seq) == seq[Len(seq)]

Is2xx(outcome) == outcome.kind = "http" /\ 200 <= outcome.status /\ outcome.status < 300

\* C13: the page reaches the extractor only when the final status is 2xx: a
\* county whose call ended in any other status has an `error` result and no
\* `results`, and is answered under `errors`, not under `results`.
C13_OnlySuccessStatusExtracted ==
    \A c \in Counties :
        (future[c].done /\ ~future[c].raised /\ final[c].kind = "http" /\ ~Is2xx(final[c])) =>
            /\ "error" \in DOMAIN future[c].result
            /\ "results" \notin DOMAIN future[c].result
            /\ Responded200 =>
                    (c \in DOMAIN ResponseErrors /\ c \notin DOMAIN ResponseResults)

\* Requests the call in progress for county c has sent, the one under way
\* included: one per retried attempt in the history, and the current one.
AttemptsSent(c) == IF task[c] = "running" THEN Len(history[c]) + 1 ELSE 0

\* The step ends county c's call on a transient failure.
EndsTransient(c) == final'[c] # final[c] /\ is_retryable(final'[c])

\* Such a step comes only when the retries are used up, after transient
\* failures only, and gives the county a "Connection error" result.
StopsWithFetchError(c) ==
    /\ total[c] = 0
    /\ \A i \in DOMAIN history[c] : is_retryable(history[c][i])
    /\ task'[c] = "finished" /\ history'[c] = <<>>
    /\ ~future'[c].raised
    /\ "error" \in DOMAIN future'[c].result /\ "results" \notin DOMAIN future'[c].result
    /\ future'[c].result.error.prefix = "Connection error: "

\* C14 as stated: a county receives at most 3 request attempts in one scan.
C14_AtMostThreeAttempts == \A c \in Counties : AttemptsSent(c) <= 3

\* C14, amended: a county receives at most RetryTotal + 1 = 4 request attempts
\* in one scan (the first and three retries), and when all of them fail
\* transiently the call stops with a "Connection error" result.
C14_RetryBounded ==
    /\ [](\A c \in Counties :
            /\ AttemptsSent(c) <= RetryTotal + 1
            /\ Len(history[c]) + total[c] = RetryTotal)
    /\ [][\A c \in Counties :
            /\ EndsTransient(c) => (AttemptsSent(c) = RetryTotal + 1 /\ StopsWithFetchError(c))
            /\ history'[c] # history[c] /\ history'[c] # <<>> => is_retryable(LastOf(history'[c]))
         ]_vars

\* One county's call used all four attempts and ended in a connection error;
\* another county's call is on its fourth attempt.
C14_Witness ==
    \E a, b \in Counties :
        /\ task[a] = "finished" /\ is_retryable(final[a])
        /\ "error" \in DOMAIN future[a].result
        /\ task[b] = "running" /\ AttemptsSent(b) = RetryTotal + 1

\* The two mappings as the per-county outcomes alone determine them, with no
\* reference to the order in which the futures completed or were handed out.
MergedResults ==
    [c \in {x \in Counties : ~future[x].raised /\ "results" \in DOMAIN future[x].result} |->
        future[c].result.results]

MergedErrors ==
    [c \in {x \in Counties : future[x].raised \/ "error" \in DOMAIN future[x].result} |->
        IF future[c].raised THEN UnhandledMessage ELSE future[c].result.error]

\* C15: the merged response does not depend on the completion order: whatever
\* order the workers finished in and as_completed handed the futures out in,
\* `results` and `errors` of the response are the two mappings the per-county
\* outcomes determine.
C15_MergeOrderIndependent ==
    Responded200 =>
        /\ ResponseResults = MergedResults
        /\ ResponseErrors = MergedErrors

\* A response over four different outcomes, which the workers can reach and
\* the loop can fold in every order.
C15_Witness ==
    /\ Responded200
    /\ max_workers = Len(CountyOrder)
    /\ final["Clarendon"] = Failure("timeout")
    /\ final["Lee"] = HttpResponse(200, PageTable)
    /\ final["Sumter"] = HttpResponse(200, PageMismatch)
    /\ final["Williamsburg"] = HttpResponse(404, EmptyPage)
    /\ DOMAIN ResponseResults = {"Lee", "Sumter"}
    /\ ResponseResults["Lee"] # ResponseResults["Sumter"]

\* A text without its leading and trailing whitespace.
Trimmed(text) ==
    LET inked == {i \in DOMAIN text : ~IsSpace(text[i])}
    IN  IF inked = {} THEN <<>>
        ELSE SubSeq(text, CHOOSE i \in inked : \A j \in inked : i <= j,
                          CHOOSE i \in inked : \A j \in inked : j <= i)

\* The whole text of a cell, its link's text included.
CellText(cell) == cell.text \o (IF cell.link.present THEN cell.link.text ELSE <<>>)

\* The text of a cell with each of its fragments trimmed.
FragmentsTrimmed(cell) ==
    Trimmed(cell.text) \o (IF cell.link.present THEN Trimmed(cell.link.text) ELSE <<>>)

\* Every <tr> of the probe's table.
AllRows == probe.page.table.head \o probe.page.table.body

StatedFields == {"caseNumber", "date", "party", "type", "status", "url"}

\* The record as C16 states it.
IsStatedRecord(rec, row) ==
    /\ DOMAIN rec = StatedFields
    /\ rec.caseNumber = Trimmed(CellText(row.tds[1]))
    /\ rec.date = Trimmed(CellText(row.tds[2]))
    /\ rec.party = Trimmed(CellText(row.tds[3]))
    /\ rec.type = Trimmed(CellText(row.tds[4]))
    /\ rec.status = Trimmed(CellText(row.tds[5]))
    /\ rec.url = IF row.tds[1].link.present
                 THEN urljoin(ProbeUrl, row.tds[1].link.href) ELSE NoneUrl

HasTarget(link) == link.present /\ link.href.kind \notin {"missing", "empty"}

\* The record as the code builds it.
IsBuiltRecord(rec, row) ==
    /\ DOMAIN rec = StatedFields \cup {"county"}
    /\ rec.county = probe.county
    /\ rec.caseNumber = IF row.tds[1].link.present
                        THEN Trimmed(row.tds[1].link.text)
                        ELSE Trimmed(row.tds[1].text)
    /\ rec.date = FragmentsTrimmed(row.tds[2])
    /\ rec.party = FragmentsTrimmed(row.tds[3])
    /\ rec.type = FragmentsTrimmed(row.tds[4])
    /\ rec.status = FragmentsTrimmed(row.tds[5])
    /\ rec.url = IF HasTarget(row.tds[1].link)
                 THEN urljoin(ProbeUrl, row.tds[1].link.href) ELSE NoneUrl
    /\ HasTarget(row.tds[1].link) => rec.url.origin \notin {"", "None"}

C17_NoSourceWaits ==
    \A c \in Counties :
        task[c] = "queued" => Cardinality(Running) < max_workers

\* The dict holds exactly one of the two outcome variants.
ExactlyOneVariant(result) ==
    ("results" \in DOMAIN result) # ("error" \in DOMAIN result)

\* C18: every run of scrape_county that reaches its request returns normally,
\* with a dict for its own county that holds either a `results` list or an
\* `error` message, never both and never neither, however the request ended
\* and whatever page came back.
C18_ExactlyOneOutcomeVariant ==
    \A c \in Counties :
        (future[c].done /\ final[c] # NoAttempt) =>
            /\ ~future[c].raised
            /\ future[c].result.county = c
            /\ ExactlyOneVariant(future[c].result)

\* The four workers came back through four different paths: an exception in
\* the request, used-up retries, a page without the table, a page with rows.
C18_Witness ==
    /\ \A c \in Counties : future[c].done /\ ~future[c].raised
    /\ \E a, b, c, d \in Counties :
        /\ final[a].kind = "exception" /\ future[a].result.error.prefix = "Unexpected error: "
        /\ final[b] = HttpResponse(500, EmptyPage) /\ "error" \in DOMAIN future[b].result
        /\ final[c] = HttpResponse(200, PageMismatch) /\ future[c].result.results = <<>>
        /\ final[d] = HttpResponse(200, PageTable) /\ Len(future[d].result.results) = 1

ValidQueryReceived == pc = "received" /\ truthy(search_name)

\* Every county's pipeline has delivered its outcome and the loop has filed it.
FanInComplete ==
    \A c \in Counties : task[c] = "finished" /\ future[c].done /\ c \in yielded

\* C19: a scan with a valid query eventually responds, and only after fan-in:
\* the response to a valid query is built in a step that starts with every
\* county's outcome delivered and filed, so no response is partial.
C19_RespondsAfterFanIn ==
    /\ ValidQueryReceived ~> pc = "responded"
    /\ []((pc = "responded" /\ truthy(search_name)) =>
            (response.status = 200 /\ FanInComplete))
    /\ [][(pc # "responded" /\ pc' = "responded" /\ truthy(search_name)) => FanInComplete]_vars

\* A scan whose last county needed all four attempts has been answered.
C19_Witness ==
    /\ Responded200
    /\ FanInComplete
    /\ \E a, b \in Counties :
        /\ final[a] = HttpResponse(500, EmptyPage)
        /\ final[b] = HttpResponse(200, PageTable)
        /\ b \in DOMAIN ResponseResults

====
